---- MODULE Spec2Model ----
(***************************************************************************)
(* Real-time stream synchronisation core of the dashboard front end:       *)
(*   - the task stream of BoardDetailPage (event-stream reader, frame      *)
(*     decoder, reconnect loop, task/comment reconciler);                  *)
(*   - the chat panel FranzChat (duplex socket, reconnect timer, token     *)
(*     accumulator).                                                       *)
(* Text is a sequence of one-character strings; CR and LF stand for the    *)
(* carriage return and the line feed.                                      *)
(***************************************************************************)
EXTENDS Integers, Sequences, FiniteSets, TLC

VARIABLES
    \* frame decoder driven over one text (the read loop of one connection)
    text, pos, decBuffer, emitted,
    \* BoardDetailPage: component state
    board, tasks, comments, selectedTask,
    \* BoardDetailPage: requests in flight (create task, load comments, save task)
    creating, commentLoads, saving,
    \* BoardDetailPage: the runs of the task stream effect
    nEffects, cur, isCancelled, pc, conn, buffer, retried, reads, effSelected, since,
    authorization,
    \* FranzChat: component state and refs
    open, messages, input, streaming, isThinking, wsStatus, wsRef, reconnectTimer,
    \* FranzChat: environment (credential, sockets, pending timers, history requests,
    \* outbound frames) and the count of finalizations of the current turn
    token, nSockets, readyState, capturedOpen, timers, historyInFlight, sent, turnFinals

decVars == <<text, pos, decBuffer, emitted>>
pageVars == <<board, tasks, comments, selectedTask>>
reqVars == <<creating, commentLoads, saving>>
effVars == <<nEffects, cur, isCancelled, pc, conn, buffer, retried, reads, effSelected, since,
             authorization>>
streamVars == <<pageVars, reqVars, effVars>>
chatState == <<open, messages, input, streaming, isThinking, wsStatus, wsRef, reconnectTimer>>
chatEnv == <<token, nSockets, readyState, capturedOpen, timers, historyInFlight, sent, turnFinals>>
chatEnvRest == <<token, nSockets, readyState, capturedOpen, timers, historyInFlight, sent>>
chatVars == <<chatState, chatEnv>>
vars == <<decVars, streamVars, chatVars>>

----------------------------------------------------------------------------
(* Characters and strings *)

CR == "CR"
LF == "LF"
Whitespace == {" ", "TAB", CR, LF}

S_event == <<"e", "v", "e", "n", "t", ":">>
S_data == <<"d", "a", "t", "a", ":">>
S_task == <<"t", "a", "s", "k">>
S_message == <<"m", "e", "s", "s", "a", "g", "e">>

\* String.prototype.startsWith
StartsWith(s, p) == Len(s) >= Len(p) /\ SubSeq(s, 1, Len(p)) = p

\* String.prototype.slice(n) with n >= 0 (0-based start)
SliceFrom(s, n) == SubSeq(s, n + 1, Len(s))

\* A trim that leaves the text as it is.
TrimNothing(s) == s

\* String.prototype.trim
RECURSIVE TrimStart(_)
TrimStart(s) ==
    IF s # <<>> /\ s[1] \in Whitespace THEN TrimStart(Tail(s)) ELSE s

RECURSIVE TrimEnd(_)
TrimEnd(s) ==
    IF s # <<>> /\ s[Len(s)] \in Whitespace
    THEN TrimEnd(SubSeq(s, 1, Len(s) - 1))
    ELSE s

Trim(s) == TrimEnd(TrimStart(s))

\* buffer.replace(/\r\n/g, "\n"): every CR that an LF follows is dropped
\* (the matches of \r\n cannot overlap, so one pass replaces them all)
ReplaceCRLF(s) ==
    LET marked == [i \in 1..Len(s) |->
                     IF s[i] = CR /\ i < Len(s) /\ s[i + 1] = LF THEN "" ELSE s[i]]
    IN  SelectSeq(marked, LAMBDA c : c # "")

\* buffer.indexOf("\n\n") from position i on, as a 1-based position; 0 stands for -1
RECURSIVE IndexOfBlankLineFrom(_, _)
IndexOfBlankLineFrom(s, i) ==
    IF i >= Len(s) THEN 0
    ELSE IF s[i] = LF /\ s[i + 1] = LF THEN i
    ELSE IndexOfBlankLineFrom(s, i + 1)

IndexOfBlankLine(s) == IndexOfBlankLineFrom(s, 1)

\* s.indexOf("\n") from position i on, 1-based; 0 stands for -1
RECURSIVE IndexOfLFFrom(_, _)
IndexOfLFFrom(s, i) ==
    IF i > Len(s) THEN 0
    ELSE IF s[i] = LF THEN i
    ELSE IndexOfLFFrom(s, i + 1)

\* raw.split("\n")
RECURSIVE SplitLines(_)
SplitLines(s) ==
    LET i == IndexOfLFFrom(s, 1)
    IN  IF i = 0 THEN <<s>>
        ELSE <<SubSeq(s, 1, i - 1)>> \o SplitLines(SubSeq(s, i + 1, Len(s)))

----------------------------------------------------------------------------
(* Frame decoder: the body of the read loop *)

\* A parser that joins the data lines with a line feed.
RECURSIVE ParseLinesNewline(_, _, _)
ParseLinesNewline(lines, eventType, data) ==
    IF lines = <<>> THEN [eventType |-> eventType, data |-> data]
    ELSE LET line == Head(lines)
         IN  IF StartsWith(line, S_event)
             THEN ParseLinesNewline(Tail(lines), Trim(SliceFrom(line, 6)), data)
             ELSE IF StartsWith(line, S_data)
                  THEN ParseLinesNewline(Tail(lines), eventType,
                                         (IF data = <<>> THEN <<>> ELSE data \o <<LF>>)
                                             \o Trim(SliceFrom(line, 5)))
                  ELSE ParseLinesNewline(Tail(lines), eventType, data)

\* for (const line of lines): the event: / data: fields of one frame
RECURSIVE ParseLines(_, _, _)
ParseLines(lines, eventType, data) ==
    IF lines = <<>> THEN [eventType |-> eventType, data |-> data]
    ELSE LET line == Head(lines)
         IN  IF StartsWith(line, S_event)
             THEN ParseLines(Tail(lines), Trim(SliceFrom(line, 6)), data)
             ELSE IF StartsWith(line, S_data)
                  THEN ParseLines(Tail(lines), eventType, data \o Trim(SliceFrom(line, 5)))
                  ELSE ParseLines(Tail(lines), eventType, data)

ParseFrame(raw) == ParseLines(SplitLines(raw), S_message, <<>>)

\* while (boundary !== -1): cut every complete frame off the front of the buffer
RECURSIVE DrainFrom(_, _)
DrainFrom(buf, frames) ==
    LET boundary == IndexOfBlankLine(buf)
    IN  IF boundary = 0 THEN [frames |-> frames, buffer |-> buf]
        ELSE DrainFrom(SubSeq(buf, boundary + 2, Len(buf)),
                       Append(frames, ParseFrame(SubSeq(buf, 1, boundary - 1))))

\* A drain that also hands over the text left after the last blank line.
DrainBufferFlush(buf) ==
    LET r == DrainFrom(buf, <<>>)
    IN  IF r.buffer = <<>> THEN r
        ELSE [frames |-> Append(r.frames, ParseFrame(r.buffer)), buffer |-> <<>>]

DrainBuffer(buf) == DrainFrom(buf, <<>>)

\* A decoder that normalises each chunk on its own before appending it.
DecodeChunkPerChunk(buf, chunk) == DrainBuffer(buf \o ReplaceCRLF(chunk))

\* One iteration of the read loop on a chunk: append, normalise, drain.
DecodeChunk(buf, chunk) == DrainBuffer(ReplaceCRLF(buf \o chunk))

\* if (eventType === "task" && data): the frames handed to the reconciler
Dispatched(frames) ==
    SelectSeq(frames, LAMBDA f : f.eventType = S_task /\ f.data # <<>>)

----------------------------------------------------------------------------
(* Valid event-stream texts *)

MaxFrames == 2

L_eventSpTask == S_event \o <<" ">> \o S_task
L_dataSpB == S_data \o <<" ">> \o <<"{", "B", "}">>
L_dataOpen == S_data \o <<"{", "A">>
L_dataClose == S_data \o <<"}">>
L_comment == <<":", "k">>

\* Frame bodies: the lines of a frame, without line endings
FrameBodies ==
    { <<L_eventSpTask, L_dataOpen, L_dataClose>>,
      <<L_comment, L_dataSpB>> }

\* Line-ending styles of a frame: all LF, all CRLF, or alternating
EolStyles == {"lf", "crlf", "mixed"}

Eol(style, k) ==
    IF style = "lf" THEN <<LF>>
    ELSE IF style = "crlf" THEN <<CR, LF>>
    ELSE IF k % 2 = 1 THEN <<CR, LF>> ELSE <<LF>>

\* The wire text of a frame: every line with its ending, then the blank line
RECURSIVE LinesText(_, _, _)
LinesText(lines, style, k) ==
    IF lines = <<>> THEN Eol(style, k)
    ELSE Head(lines) \o Eol(style, k) \o LinesText(Tail(lines), style, k + 1)

FrameText(body, style) == LinesText(body, style, 1)

RECURSIVE TextsOf(_)
TextsOf(n) ==
    IF n = 0 THEN {<<>>}
    ELSE {t \o FrameText(b, s) : t \in TextsOf(n - 1), b \in FrameBodies, s \in EolStyles}

ValidTexts == UNION {TextsOf(n) : n \in 1..MaxFrames}

----------------------------------------------------------------------------
(* The decoder driven over one text in chunks of any size *)

DecoderStart ==
    /\ text \in ValidTexts
    /\ pos = 0
    /\ decBuffer = <<>>
    /\ emitted = <<>>

DecoderIdle ==
    /\ text = <<>>
    /\ pos = 0
    /\ decBuffer = <<>>
    /\ emitted = <<>>

\* const { value, done } = await reader.read(): the next chunk, of any length
DecoderRead ==
    /\ pos < Len(text)
    /\ \E n \in 1..(Len(text) - pos) :
         LET r == DecodeChunk(decBuffer, SubSeq(text, pos + 1, pos + n))
         IN  /\ pos' = pos + n
             /\ decBuffer' = r.buffer
             /\ emitted' = emitted \o r.frames
    /\ UNCHANGED <<text, streamVars, chatVars>>


----------------------------------------------------------------------------
(* Frames of any lines: the decoder over one frame *)

MaxLines == 3

\* The lines a frame may hold: event: and data: fields with and without a space
\* after the colon and with spaces after the value, and a comment line
FieldLines ==
    { S_event \o <<" ">> \o S_task,
      S_event \o <<"t", " ">>,
      S_data \o <<" ", "{", "A">>,
      S_data \o <<"}", " ">>,
      L_comment }

RECURSIVE BodiesOf(_)
BodiesOf(n) ==
    IF n = 0 THEN {<<>>}
    ELSE {Append(b, l) : b \in BodiesOf(n - 1), l \in FieldLines}

FieldBodies == UNION {BodiesOf(n) : n \in 1..MaxLines}

FieldsStart ==
    /\ text \in {FrameText(b, "lf") : b \in FieldBodies}
    /\ pos = 0
    /\ decBuffer = <<>>
    /\ emitted = <<>>

----------------------------------------------------------------------------
(* Task stream payloads *)

\* The text of a JSON document is abstracted to "{", one symbol, "}": the symbol
\* stands for the members of the object. Any other text fails to parse.
\* The documents of the task stream and board specifications
StreamSyms == {"A", "B", "C", "K"}

\* "M" is a comment document that also carries a task; "U", "V", "W" are the
\* successive updates of task 1, each with its updated_at
PayloadSyms == StreamSyms \cup {"M", "U", "V", "W"}

PayloadOf(p) ==
    CASE p = "A" -> [type |-> "task.updated",
                     task |-> [id |-> 1, title |-> "a", status |-> "inbox"]]
      [] p = "B" -> [type |-> "task.updated",
                     task |-> [id |-> 1, status |-> "in_progress"]]
      [] p = "C" -> [type |-> "task.created",
                     task |-> [id |-> 2, title |-> "c", status |-> "inbox"]]
      [] p = "K" -> [type |-> "task.comment",
                     comment |-> [id |-> 1, task_id |-> 1, message |-> "k"]]
      [] p = "M" -> [type |-> "task.comment",
                     comment |-> [id |-> 2, task_id |-> 1, message |-> "m"],
                     task |-> [id |-> 1, title |-> "m", status |-> "done"]]
      [] p = "U" -> [type |-> "task.created",
                     task |-> [id |-> 1, title |-> "a", status |-> "inbox",
                               updated_at |-> "T1"]]
      [] p = "V" -> [type |-> "task.updated",
                     task |-> [id |-> 1, status |-> "in_progress", updated_at |-> "T2+"]]
      [] p = "W" -> [type |-> "task.updated",
                     task |-> [id |-> 1, status |-> "done", updated_at |-> "T3"]]

\* JSON.parse(data): ok = FALSE stands for the SyntaxError it throws
JSONParse(data) ==
    IF Len(data) = 3 /\ data[1] = "{" /\ data[3] = "}" /\ data[2] \in PayloadSyms
    THEN [ok |-> TRUE, value |-> PayloadOf(data[2])]
    ELSE [ok |-> FALSE]

TaskPayloads == {PayloadOf(p).task : p \in {q \in StreamSyms : "task" \in DOMAIN PayloadOf(q)}}

\* The wire text of an "event: task" frame carrying document p
Wire(p) == FrameText(<<S_event \o S_task, S_data \o <<"{", p, "}">>>>, "lf")

WireCut == Len(S_event) + Len(S_task) + Len(S_data) + 2

\* The chunks a read of the stream body may return
StreamChunks ==
    {Wire(p) : p \in StreamSyms}
        \cup {Wire("A") \o Wire("B")}
        \cup {SubSeq(Wire("C"), 1, WireCut), SubSeq(Wire("C"), WireCut + 1, Len(Wire("C")))}

\* The task lists the board load may return
InitialTaskLists == {<<>>, <<[id |-> 1, title |-> "a", status |-> "inbox"]>>}

----------------------------------------------------------------------------
(* Update reconciler *)

\* prev.findIndex((item) => item.id === payload.task?.id), 1-based; 0 stands for -1
FindIndex(prev, id) ==
    LET hits == {i \in 1..Len(prev) : prev[i].id = id}
    IN  IF hits = {} THEN 0 ELSE CHOOSE i \in hits : \A j \in hits : i <= j

\* A merge in which the fields already held win: { ...payload.task, ...next[index] }
MergeOldWins(old, new) ==
    [f \in (DOMAIN old) \cup (DOMAIN new) |-> IF f \in DOMAIN old THEN old[f] ELSE new[f]]

\* { ...next[index], ...payload.task }
Merge(old, new) ==
    [f \in (DOMAIN old) \cup (DOMAIN new) |-> IF f \in DOMAIN new THEN new[f] ELSE old[f]]

\* An upsert that replaces the stored entity by the payload.
ApplyTaskReplacing(prev, task) ==
    LET index == FindIndex(prev, task.id)
    IN  IF index = 0 THEN <<task>> \o prev ELSE [prev EXCEPT ![index] = task]

\* setTasks((prev) => ...): upsert by id
ApplyTask(prev, task) ==
    LET index == FindIndex(prev, task.id)
    IN  IF index = 0 THEN <<task>> \o prev
        ELSE [prev EXCEPT ![index] = Merge(prev[index], task)]

\* An updater that appends without looking for the id.
ApplyCommentAlways(prev, comment, sel) ==
    IF sel # comment.task_id THEN prev ELSE Append(prev, comment)

\* An updater that does not look at the open task.
ApplyCommentUngated(prev, comment, sel) ==
    IF \E i \in 1..Len(prev) : prev[i].id = comment.id THEN prev
    ELSE Append(prev, comment)

\* setComments((prev) => ...): append unless another task is open or the id is known
ApplyComment(prev, comment, sel) ==
    IF sel # comment.task_id THEN prev
    ELSE IF \E i \in 1..Len(prev) : prev[i].id = comment.id THEN prev
    ELSE Append(prev, comment)

\* payload.comment?.task_id && payload.type === "task.comment"
IsCommentPayload(payload) ==
    /\ "comment" \in DOMAIN payload
    /\ "task_id" \in DOMAIN payload.comment
    /\ payload.type = "task.comment"

\* A body whose task branch does not depend on the comment branch (if, not else if).
HandleFrameBoth(st, frame, sel) ==
    IF ~(frame.eventType = S_task /\ frame.data # <<>>) THEN st
    ELSE LET parsed == JSONParse(frame.data)
         IN  IF ~parsed.ok THEN st
             ELSE LET st1 == IF IsCommentPayload(parsed.value)
                             THEN [st EXCEPT !.comments =
                                      ApplyComment(@, parsed.value.comment, sel)]
                             ELSE st
                  IN  IF "task" \in DOMAIN parsed.value
                      THEN [st1 EXCEPT !.tasks = ApplyTask(@, parsed.value.task)]
                      ELSE st1

\* The body of the inner loop for one decoded frame; st = [tasks, comments]
HandleFrame(st, frame, sel) ==
    IF ~(frame.eventType = S_task /\ frame.data # <<>>) THEN st
    ELSE LET parsed == JSONParse(frame.data)
         IN  IF ~parsed.ok THEN st
             ELSE IF IsCommentPayload(parsed.value)
                  THEN [st EXCEPT !.comments = ApplyComment(@, parsed.value.comment, sel)]
                  ELSE IF "task" \in DOMAIN parsed.value
                       THEN [st EXCEPT !.tasks = ApplyTask(@, parsed.value.task)]
                       ELSE st

\* A loop that a frame whose payload does not parse brings to an end.
RECURSIVE HandleFramesUntilError(_, _, _)
HandleFramesUntilError(st, frames, sel) ==
    IF frames = <<>> THEN st
    ELSE IF Head(frames).data # <<>> /\ ~JSONParse(Head(frames).data).ok THEN st
    ELSE HandleFramesUntilError(HandleFrame(st, Head(frames), sel), Tail(frames), sel)

\* The frames of one chunk, in order
RECURSIVE HandleFrames(_, _, _)
HandleFrames(st, frames, sel) ==
    IF frames = <<>> THEN st
    ELSE HandleFrames(HandleFrame(st, Head(frames), sel), Tail(frames), sel)

----------------------------------------------------------------------------
(* Cursor tracker: latestTaskTimestamp *)

\* A timestamp field holds "null", a text, or is absent from the entity (undefined).
\* The texts: "" (empty), "bad" (not a date), and date texts; "T2+" writes the
\* instant of "T2" in another form (another offset, more fractional digits).
IsoTexts == <<"T1", "T2", "T3">>

\* new Date(value).getTime(): the instant in milliseconds, or NaN
DateParse(value) ==
    IF \E n \in 1..Len(IsoTexts) : value = IsoTexts[n]
    THEN [nan |-> FALSE, time |-> CHOOSE n \in 1..Len(IsoTexts) : value = IsoTexts[n]]
    ELSE IF value = "T2+" THEN [nan |-> FALSE, time |-> 2]
    ELSE [nan |-> TRUE]

\* new Date(time).toISOString()
ToISOString(time) == IsoTexts[time]

\* task.updated_at ?? task.created_at
StampOf(task) ==
    LET updated == IF "updated_at" \in DOMAIN task THEN task.updated_at ELSE "undefined"
        created == IF "created_at" \in DOMAIN task THEN task.created_at ELSE "undefined"
    IN  IF updated \in {"null", "undefined"} THEN created ELSE updated

\* if (!value) return;
Falsy(value) == value \in {"null", "undefined", ""}

\* A comparison that lets every valid time replace the running maximum.
NewerAlways(time, latestTime) == TRUE

\* time > latestTime
Newer(time, latestTime) == time > latestTime

\* items.forEach(...): the running latestTime over the list, starting from 0
RECURSIVE LatestTime(_, _)
LatestTime(items, latestTime) ==
    IF items = <<>> THEN latestTime
    ELSE LET value == StampOf(Head(items))
             parsed == IF Falsy(value) THEN [nan |-> TRUE] ELSE DateParse(value)
         IN  IF ~parsed.nan /\ Newer(parsed.time, latestTime)
             THEN LatestTime(Tail(items), parsed.time)
             ELSE LatestTime(Tail(items), latestTime)

\* A tracker that never finds a timestamp.
LatestTaskTimestampNone(items) == "null"

\* return latestTime ? new Date(latestTime).toISOString() : null;
LatestTaskTimestamp(items) ==
    LET latestTime == LatestTime(items, 0)
    IN  IF latestTime # 0 THEN ToISOString(latestTime) ELSE "null"

MaxTasks == 2

\* The timestamp fields an entity of the board load may carry
StampedFields ==
    { [updated_at |-> u, created_at |-> c] :
        u \in {"null", "bad", "T1", "T3", "T2+"}, c \in {"T2", "bad"} }
        \cup { [created_at |-> c] : c \in {"T1", "T2"} }
        \cup { [updated_at |-> u] : u \in {"", "T2"} }

\* Task lists with timestamps (the id of a task is its position)
StampedTaskLists ==
    UNION { { [i \in 1..n |-> Merge([id |-> i], f[i])] : f \in [1..n -> StampedFields] } :
            n \in 0..MaxTasks }

----------------------------------------------------------------------------
(* Task stream effect: connection manager *)

MaxEffects == 2
MaxReads == 3

\* The runs of the effect: MaxEffects by a change of a dependency other than the
\* selected task, and one more for the changes of the selected task
MaxRuns == MaxEffects + 1

Effects == 1..MaxRuns

StreamStart ==
    /\ board = FALSE
    /\ tasks = <<>>
    /\ comments = <<>>
    /\ selectedTask = 0
    /\ creating = "idle"
    /\ commentLoads = {}
    /\ saving = 0
    /\ nEffects = 0
    /\ cur = 0
    /\ isCancelled = [e \in Effects |-> FALSE]
    /\ pc = [e \in Effects |-> "unborn"]
    /\ conn = [e \in Effects |-> "none"]
    /\ buffer = [e \in Effects |-> <<>>]
    /\ retried = [e \in Effects |-> FALSE]
    /\ reads = 0
    /\ effSelected = [e \in Effects |-> 0]
    /\ since = "null"
    /\ authorization = "none"

\* A cleanup that leaves the transport alone.
AbortNothing(c) == c

\* abortController.abort(): the pending fetch or read is torn down
Abort(c) == "none"

\* headers: { Authorization: `Bearer ${token}` }: the header built from what
\* getToken() resolved with (tok: a token, as opposed to null)
Bearer(tok) == IF tok THEN "Bearer token" ELSE "Bearer null"

\* A guard that does not look at isCancelled.
MayConnectAnyway(tok, cancelled) == tok

\* if (!token || isCancelled) return;  (TRUE: connect goes on to fetch)
MayConnect(tok, cancelled) == tok /\ ~cancelled

\* catch { if (!isCancelled) setTimeout(connect, 3000); }
CatchTarget(cancelled) == IF cancelled THEN "exit_catch" ELSE "timer"

\* The effect body: a new run with its own isCancelled and abortController, whose
\* closure holds the selected task sel; connect() is called and suspends in getToken().
\* The cleanup of the run it replaces comes first.
RunEffectWith(old, sel) ==
    LET e == nEffects + 1
    IN  /\ nEffects < MaxRuns
        /\ nEffects' = e
        /\ cur' = e
        /\ pc' = [pc EXCEPT ![e] = "token"]
        /\ effSelected' = [effSelected EXCEPT ![e] = sel]
        /\ isCancelled' = IF old = 0 THEN isCancelled ELSE [isCancelled EXCEPT ![old] = TRUE]
        /\ conn' = IF old = 0 THEN conn ELSE [conn EXCEPT ![old] = Abort(@)]
        /\ UNCHANGED <<buffer, retried, reads, since, authorization>>

RunEffect(old) == RunEffectWith(old, selectedTask)

\* loadBoard resolves with the task list taskData: setBoard, setTasks; the effect
\* runs for the first time
LoadBoardWith(taskData) ==
    /\ ~board
    /\ board' = TRUE
    /\ tasks' = taskData
    /\ RunEffect(0)
    /\ UNCHANGED <<comments, selectedTask, reqVars, decVars, chatVars>>

LoadBoard == \E taskData \in InitialTaskLists : LoadBoardWith(taskData)

\* loadBoard resolves with a task list that carries timestamps
LoadBoardStamped == \E taskData \in StampedTaskLists : LoadBoardWith(taskData)

\* A dependency of the effect changes: cleanup, then the body again
RestartEffect ==
    /\ cur # 0
    /\ nEffects < MaxEffects
    /\ RunEffect(cur)
    /\ UNCHANGED <<pageVars, reqVars, decVars, chatVars>>

\* The page unmounts: cleanup only
StopEffect ==
    /\ cur # 0
    /\ isCancelled' = [isCancelled EXCEPT ![cur] = TRUE]
    /\ conn' = [conn EXCEPT ![cur] = Abort(@)]
    /\ cur' = 0
    /\ UNCHANGED <<pageVars, reqVars, nEffects, pc, buffer, retried, reads, effSelected, since, authorization, decVars, chatVars>>

\* A connect that computes the since parameter on its first attempt only.
TokenResolvedStaleCursor(e) ==
    /\ pc[e] = "token"
    /\ \E tok \in BOOLEAN :
         IF MayConnect(tok, isCancelled[e])
         THEN /\ pc' = [pc EXCEPT ![e] = "fetch"]
              /\ conn' = [conn EXCEPT ![e] = "opening"]
              /\ since' = IF retried[e] THEN since ELSE LatestTaskTimestamp(tasks)
              /\ authorization' = Bearer(tok)
         ELSE /\ pc' = [pc EXCEPT ![e] = "exit_guard"]
              /\ UNCHANGED <<conn, since, authorization>>
    /\ UNCHANGED <<pageVars, reqVars, nEffects, cur, isCancelled, buffer, retried, reads, effSelected,
                   decVars, chatVars>>

\* await getToken() resolves; the guard, then the since parameter of the URL and
\* fetch(url, {signal})
TokenResolved(e) ==
    /\ pc[e] = "token"
    /\ \E tok \in BOOLEAN :
         IF MayConnect(tok, isCancelled[e])
         THEN /\ pc' = [pc EXCEPT ![e] = "fetch"]
              /\ conn' = [conn EXCEPT ![e] = "opening"]
              /\ since' = LatestTaskTimestamp(tasks)
              /\ authorization' = Bearer(tok)
         ELSE /\ pc' = [pc EXCEPT ![e] = "exit_guard"]
              /\ UNCHANGED <<conn, since, authorization>>
    /\ UNCHANGED <<pageVars, reqVars, nEffects, cur, isCancelled, buffer, retried, reads, effSelected,
                   decVars, chatVars>>

\* await getToken() rejects: the catch block
TokenRejected(e) ==
    /\ pc[e] = "token"
    /\ pc' = [pc EXCEPT ![e] = CatchTarget(isCancelled[e])]
    /\ UNCHANGED <<pageVars, reqVars, nEffects, cur, isCancelled, conn, buffer, retried, reads,
                   effSelected, since, authorization, decVars, chatVars>>

\* await fetch(...) resolves; ok: response.ok && response.body. A usable body
\* starts the read loop with let buffer = "", otherwise throw
FetchSettled(e, ok) ==
    /\ pc[e] = "fetch"
    /\ ~isCancelled[e]
    /\ IF ok
       THEN /\ pc' = [pc EXCEPT ![e] = "read"]
            /\ conn' = [conn EXCEPT ![e] = "open"]
            /\ buffer' = [buffer EXCEPT ![e] = <<>>]
       ELSE /\ pc' = [pc EXCEPT ![e] = CatchTarget(isCancelled[e])]
            /\ conn' = [conn EXCEPT ![e] = "none"]
            /\ UNCHANGED buffer
    /\ UNCHANGED <<pageVars, reqVars, nEffects, cur, isCancelled, retried, reads, effSelected,
                   since, authorization, chatVars>>

FetchResolved(e) ==
    /\ \E ok \in BOOLEAN : FetchSettled(e, ok)
    /\ UNCHANGED decVars

\* await fetch(...) rejects (network error, or the signal was aborted)
FetchRejected(e) ==
    /\ pc[e] = "fetch"
    /\ pc' = [pc EXCEPT ![e] = CatchTarget(isCancelled[e])]
    /\ conn' = [conn EXCEPT ![e] = "none"]
    /\ UNCHANGED <<pageVars, reqVars, nEffects, cur, isCancelled, buffer, retried, reads,
                   effSelected, since, authorization, decVars, chatVars>>

\* await reader.read() resolves with the given chunk: decode, dispatch, loop
ReadBody(e, chunk) ==
    /\ pc[e] = "read"
    /\ ~isCancelled[e]
    /\ LET r == DecodeChunk(buffer[e], chunk)
           st == HandleFrames([tasks |-> tasks, comments |-> comments], r.frames,
                              effSelected[e])
       IN  /\ buffer' = [buffer EXCEPT ![e] = r.buffer]
           /\ tasks' = st.tasks
           /\ comments' = st.comments
    /\ UNCHANGED <<board, selectedTask, reqVars, nEffects, cur, isCancelled, pc, conn, retried,
                   effSelected, since, authorization, chatVars>>

ReadChunk(e, chunk) ==
    /\ ReadBody(e, chunk)
    /\ UNCHANGED decVars

\* A read of the task stream specification (reads counts them, up to MaxReads)
StreamRead(e) ==
    /\ reads < MaxReads
    /\ reads' = reads + 1
    /\ \E chunk \in StreamChunks : ReadChunk(e, chunk)

\* await reader.read() resolves with done: break, and connect returns (its local
\* buffer goes out of scope, whatever it still held)
StreamDone(e) ==
    /\ pc[e] = "read"
    /\ ~isCancelled[e]
    /\ pc' = [pc EXCEPT ![e] = "exit_done"]
    /\ conn' = [conn EXCEPT ![e] = "none"]
    /\ buffer' = [buffer EXCEPT ![e] = <<>>]
    /\ UNCHANGED <<pageVars, reqVars, nEffects, cur, isCancelled, retried, reads, effSelected, since, authorization,
                   decVars, chatVars>>

\* await reader.read() rejects (read error, or the signal was aborted)
StreamReadRejected(e) ==
    /\ pc[e] = "read"
    /\ pc' = [pc EXCEPT ![e] = CatchTarget(isCancelled[e])]
    /\ conn' = [conn EXCEPT ![e] = "none"]
    /\ buffer' = [buffer EXCEPT ![e] = <<>>]
    /\ UNCHANGED <<pageVars, reqVars, nEffects, cur, isCancelled, retried, reads, effSelected, since, authorization,
                   decVars, chatVars>>

\* setTimeout(connect, 3000) fires: connect() again (the timer is never cleared)
TimerFires(e) ==
    /\ pc[e] = "timer"
    /\ pc' = [pc EXCEPT ![e] = "token"]
    /\ retried' = [retried EXCEPT ![e] = TRUE]
    /\ UNCHANGED <<pageVars, reqVars, nEffects, cur, isCancelled, conn, buffer, reads, effSelected, since, authorization,
                   decVars, chatVars>>

----------------------------------------------------------------------------
(* BoardDetailPage: the handlers that write the task list, the comments and the
   selected task *)

\* The ids of the tasks of the board
TaskIds == {t.id : t \in TaskPayloads}

\* What the server answers to the create request: the new task, under an id the
\* Working Set did not hold when the request was issued
CreatedTask == PayloadOf("C").task

\* What the server answers to the save request of task id
SavedTask(id) == [id |-> id, title |-> "s", status |-> "done"]

\* What the server answers to the comments request of task id
ServerComments(id) ==
    IF id = PayloadOf("K").comment.task_id THEN {<<>>, <<PayloadOf("K").comment>>} ELSE {<<>>}

\* Chunks that begin with a frame whose payload is not JSON: alone, followed by a
\* comment frame, followed by a task frame
MalformedChunks == {Wire("X"), Wire("X") \o Wire("K"), Wire("X") \o Wire("A")}

\* The chunks of the board specification: whole frames
BoardChunks == {Wire(p) : p \in StreamSyms} \cup MalformedChunks

\* selectedTask?.id is a dependency of the task stream effect: when the id changes
\* the effect is cleaned up and runs again with the new closure
SelectTask(sel) ==
    /\ selectedTask' = sel
    /\ IF sel = selectedTask THEN UNCHANGED effVars ELSE RunEffectWith(cur, sel)

\* openComments(task): setSelectedTask(task), then loadComments(task.id) up to its
\* request
OpenComments(id) ==
    /\ board
    /\ FindIndex(tasks, id) # 0
    /\ SelectTask(id)
    /\ commentLoads' = commentLoads \cup {id}
    /\ UNCHANGED <<board, tasks, comments, creating, saving, decVars, chatVars>>

\* closeComments(): setSelectedTask(null), setComments([])
CloseComments ==
    /\ board
    /\ selectedTask # 0
    /\ SelectTask(0)
    /\ comments' = <<>>
    /\ UNCHANGED <<board, tasks, reqVars, decVars, chatVars>>

\* loadComments(id): the request completes; setComments(data) on a usable answer
CommentsLoaded(id) ==
    /\ id \in commentLoads
    /\ commentLoads' = commentLoads \ {id}
    /\ \E ok \in BOOLEAN, data \in ServerComments(id) :
         comments' = IF ok THEN data ELSE comments
    /\ UNCHANGED <<board, tasks, selectedTask, creating, saving, effVars, decVars, chatVars>>

\* handleCreateTask up to its request (the create button is disabled meanwhile)
HandleCreateTask ==
    /\ board
    /\ creating = "idle"
    /\ FindIndex(tasks, CreatedTask.id) = 0
    /\ creating' = "pending"
    /\ UNCHANGED <<pageVars, commentLoads, saving, effVars, decVars, chatVars>>

\* handleCreateTask: the request completes; setTasks((prev) => [created, ...prev])
CreateTaskResolved ==
    /\ creating = "pending"
    /\ creating' = "done"
    /\ \E ok \in BOOLEAN :
         tasks' = IF ok THEN <<CreatedTask>> \o tasks ELSE tasks
    /\ UNCHANGED <<board, comments, selectedTask, commentLoads, saving, effVars, decVars,
                   chatVars>>

\* handleTaskSave up to its request, for the selected task
HandleTaskSave ==
    /\ board
    /\ selectedTask # 0
    /\ saving = 0
    /\ saving' = selectedTask
    /\ UNCHANGED <<pageVars, creating, commentLoads, effVars, decVars, chatVars>>

\* handleTaskSave: the request completes; setTasks(prev.map(...)), setSelectedTask(updated)
TaskSaveResolved ==
    /\ saving # 0
    /\ saving' = 0
    /\ \E ok \in BOOLEAN :
         IF ok
         THEN /\ tasks' = [i \in 1..Len(tasks) |->
                             IF tasks[i].id = saving THEN SavedTask(saving) ELSE tasks[i]]
              /\ SelectTask(saving)
         ELSE UNCHANGED <<tasks, selectedTask, effVars>>
    /\ UNCHANGED <<board, comments, creating, commentLoads, decVars, chatVars>>

\* A read that returns a chunk beginning with a malformed frame (reads counts them)
MalformedRead(e) ==
    /\ reads < MaxReads
    /\ reads' = reads + 1
    /\ \E chunk \in MalformedChunks : ReadChunk(e, chunk)

\* A read of the board specification
BoardRead(e) ==
    /\ UNCHANGED reads
    /\ \E chunk \in BoardChunks : ReadChunk(e, chunk)

----------------------------------------------------------------------------
(* The task stream against a server that replays from the since parameter *)

\* The updates of the board in the order the server made them; each carries the
\* updated_at the server gave it
ServerLog == <<"U", "V", "W">>

\* The instant of an update of the log
LogTime(p) == DateParse(PayloadOf(p).task.updated_at).time

\* The number of updates the server leaves out of the stream it answers with: the
\* ones older than the since parameter; none without the parameter
ReplayStart(cursor) ==
    IF cursor = "null" THEN 0
    ELSE Cardinality({i \in 1..Len(ServerLog) : LogTime(ServerLog[i]) < DateParse(cursor).time})

\* The task lists the board load returns: the board before and after the first update
ReplayTaskLists == {<<>>, <<PayloadOf("U").task>>}

LoadBoardReplay == \E taskData \in ReplayTaskLists : LoadBoardWith(taskData)

\* await fetch(...) resolves with the stream the server replays from since; pos
\* counts the updates of the log that are behind the next frame of the stream
ReplayAccepted(e) ==
    /\ FetchSettled(e, TRUE)
    /\ pos' = ReplayStart(since)
    /\ UNCHANGED <<text, decBuffer, emitted>>

\* await reader.read() resolves with the next frame of the replayed stream
ReplayRead(e) ==
    /\ pos < Len(ServerLog)
    /\ pos' = pos + 1
    /\ ReadBody(e, Wire(ServerLog[pos + 1]))
    /\ UNCHANGED <<reads, text, decBuffer, emitted>>

----------------------------------------------------------------------------
(* The read loop of one connection after another, with the text each received *)

\* The chunks of the read loop specification: a whole frame, a frame short of
\* the last line feed of its blank line, and that line feed
LoopChunks == {Wire("A"), SubSeq(Wire("C"), 1, Len(Wire("C")) - 1), <<LF>>}

\* await fetch(...) resolves; text is from here on the text read on this connection
LoopAccepted(e) ==
    /\ \E ok \in BOOLEAN : FetchSettled(e, ok)
    /\ text' = <<>>
    /\ UNCHANGED <<pos, decBuffer, emitted>>

\* await reader.read() resolves with a chunk (reads counts them, up to MaxReads)
LoopRead(e) ==
    /\ reads < MaxReads
    /\ reads' = reads + 1
    /\ \E chunk \in LoopChunks :
         /\ ReadBody(e, chunk)
         /\ text' = text \o chunk
    /\ UNCHANGED <<pos, decBuffer, emitted>>

\* The chunks of the frame order specification: task frames alone and two at
\* once, and a comment frame that also carries a task
FrameChunks == {Wire("A"), Wire("B"), Wire("A") \o Wire("B"), Wire("M")}

\* await fetch(...) resolves; emitted is from here on the frames decoded on this
\* connection
FramesAccepted(e) ==
    /\ \E ok \in BOOLEAN : FetchSettled(e, ok)
    /\ emitted' = <<>>
    /\ UNCHANGED <<text, pos, decBuffer>>

\* await reader.read() resolves with a chunk (reads counts them, up to MaxReads)
FramesRead(e) ==
    /\ reads < MaxReads
    /\ reads' = reads + 1
    /\ \E chunk \in FrameChunks :
         /\ ReadBody(e, chunk)
         /\ emitted' = emitted \o DecodeChunk(buffer[e], chunk).frames
    /\ UNCHANGED <<text, pos, decBuffer>>

----------------------------------------------------------------------------
(* FranzChat: inbound frames and the token accumulator *)

S_Hel == <<"H", "e", "l">>
S_lo == <<"l", "o">>
S_HiThere == <<"H", "i", " ", "t", "h", "e", "r", "e">>
S_Dots == <<".", ".", ".">>
S_ErrorPrefix == <<"E", "r", "r", "o", "r", ":", " ">>
S_UnknownError == <<"U", "n", "k", "n", "o", "w", "n", " ", "e", "r", "r", "o", "r">>
S_boom == <<"b", "o", "o", "m">>

ChatSyms == {"c", "d1", "d2", "f0", "f1", "st", "si", "e1", "e0"}

\* The JSON documents the chat service sends (same abstraction as PayloadOf)
ChatDocOf(p) ==
    CASE p = "c" -> [type |-> "connected"]
      [] p = "d1" -> [type |-> "delta", content |-> S_Hel]
      [] p = "d2" -> [type |-> "delta", content |-> S_lo]
      [] p = "f0" -> [type |-> "final", content |-> <<>>]
      [] p = "f1" -> [type |-> "final", content |-> S_HiThere]
      [] p = "st" -> [type |-> "status", status |-> "thinking"]
      [] p = "si" -> [type |-> "status", status |-> "idle"]
      [] p = "e1" -> [type |-> "error", message |-> S_boom]
      [] p = "e0" -> [type |-> "error"]

\* JSON.parse(evt.data): ok = FALSE stands for the SyntaxError it throws
ChatParse(data) ==
    IF Len(data) = 3 /\ data[1] = "{" /\ data[3] = "}" /\ data[2] \in ChatSyms
    THEN [ok |-> TRUE, value |-> ChatDocOf(data[2])]
    ELSE [ok |-> FALSE]

\* What a socket may deliver: every document, and a text that is not JSON
ChatWire == {<<"{", p, "}">> : p \in ChatSyms} \cup {<<"{">>}

\* The frames of the session-manager specification
SessionWire == {<<"{", p, "}">> : p \in {"c", "f1", "e0"}} \cup {<<"{">>}

\* The frames of the conversation specification
TurnWire == {<<"{", p, "}">> : p \in {"c", "d1", "f0", "f1", "st", "si", "e1"}} \cup {<<"{">>}

\* The frames of the error-frame specification
ErrorWire == {<<"{", p, "}">> : p \in {"c", "d1", "st", "e1", "e0"}}

\* The frames of the token-accumulator specification
AccumulatorWire == {<<"{", p, "}">> : p \in {"d1", "d2", "f0", "f1"}}

\* A finalization that prefers the running buffer to the terminal text.
FinalContentBufferFirst(finalContent, prevStreaming) ==
    IF prevStreaming # <<>> THEN prevStreaming
    ELSE IF finalContent # <<>> THEN finalContent
    ELSE S_Dots

\* const content = finalContent || prevStreaming || "...";
FinalContent(finalContent, prevStreaming) ==
    IF finalContent # <<>> THEN finalContent
    ELSE IF prevStreaming # <<>> THEN prevStreaming
    ELSE S_Dots

\* An error text that ignores the frame's message.
ErrorContentUnknown(d) == S_ErrorPrefix \o S_UnknownError

\* `Error: ${data.message ?? "Unknown error"}`
ErrorContent(d) ==
    S_ErrorPrefix \o (IF "message" \in DOMAIN d THEN d.message ELSE S_UnknownError)

\* The texts the user may type
InputTexts == {<<>>, <<" ">>, <<" ", "h", "i", " ">>}

\* What the history request may answer; ok = FALSE also stands for a failed fetch
HistoryResponses ==
    { [ok |-> FALSE],
      [ok |-> TRUE, messages |-> <<>>],
      [ok |-> TRUE, messages |-> <<[role |-> "system", content |-> <<"o">>]>>] }

\* data.messages.map(...): any role other than "user" becomes "assistant"
MapHistory(ms) ==
    [i \in 1..Len(ms) |->
        [role |-> IF ms[i].role = "user" THEN "user" ELSE "assistant",
         content |-> ms[i].content]]

----------------------------------------------------------------------------
(* FranzChat: duplex session manager *)

MaxSockets == 3
MaxMsgs == 3
MaxStreamLen == 5

Sockets == 1..MaxSockets

ChatStart ==
    /\ open = FALSE
    /\ messages = <<>>
    /\ input = <<>>
    /\ streaming = <<>>
    /\ isThinking = FALSE
    /\ wsStatus = "disconnected"
    /\ wsRef = 0
    /\ reconnectTimer = 0
    /\ token \in BOOLEAN
    /\ nSockets = 0
    /\ readyState = [s \in Sockets |-> "NONE"]
    /\ capturedOpen = [s \in Sockets |-> FALSE]
    /\ timers = {}
    /\ historyInFlight = 0
    /\ sent = <<>>
    /\ turnFinals = 0

\* The connection part of the state, as connect() and the cleanup read and write it
ConnState ==
    [wsRef |-> wsRef, wsStatus |-> wsStatus, nSockets |-> nSockets,
     readyState |-> readyState, capturedOpen |-> capturedOpen]

SetConn(c) ==
    /\ wsRef' = c.wsRef
    /\ wsStatus' = c.wsStatus
    /\ nSockets' = c.nSockets
    /\ readyState' = c.readyState
    /\ capturedOpen' = c.capturedOpen

\* WebSocket.close(): the close event comes later (SocketClosed)
CloseSocket(rs) == IF rs \in {"CONNECTING", "OPEN"} THEN "CLOSING" ELSE rs

\* connect(), called from a closure in which `open` has the value capOpen
Connect(c, capOpen, tok) ==
    IF ~tok THEN c
    ELSE LET n == c.nSockets + 1
             closed == IF c.wsRef # 0
                       THEN [c.readyState EXCEPT ![c.wsRef] = CloseSocket(@)]
                       ELSE c.readyState
         IN  [wsRef |-> n,
              wsStatus |-> "connecting",
              nSockets |-> n,
              readyState |-> [closed EXCEPT ![n] = "CONNECTING"],
              capturedOpen |-> [c.capturedOpen EXCEPT ![n] = capOpen]]

\* The cleanup's clearTimeout(reconnectTimer.current)
ClearTimeout(ts, ref) == ts \ {ref}

\* The cleanup's wsRef.current.close(); wsRef.current = null
CleanupSocket(c) ==
    IF c.wsRef = 0 THEN c
    ELSE [c EXCEPT !.readyState = [@ EXCEPT ![c.wsRef] = CloseSocket(@)], !.wsRef = 0]

\* setOpen(true): the effect's cleanup, then loadHistory() and connect()
OpenPanel ==
    /\ ~open
    /\ token => nSockets < MaxSockets
    /\ open' = TRUE
    /\ timers' = ClearTimeout(timers, reconnectTimer)
    /\ SetConn(Connect(CleanupSocket(ConnState), TRUE, token))
    /\ historyInFlight' = IF token THEN historyInFlight + 1 ELSE historyInFlight
    /\ UNCHANGED <<messages, input, streaming, isThinking, reconnectTimer, token, sent,
                   turnFinals, decVars, streamVars>>

\* setOpen(false): the effect's cleanup
ClosePanel ==
    /\ open
    /\ open' = FALSE
    /\ timers' = ClearTimeout(timers, reconnectTimer)
    /\ SetConn(CleanupSocket(ConnState))
    /\ UNCHANGED <<messages, input, streaming, isThinking, reconnectTimer, token,
                   historyInFlight, sent, turnFinals, decVars, streamVars>>

\* The history request completes: setMessages(mapped) on a usable answer
HistoryResolved ==
    /\ historyInFlight > 0
    /\ historyInFlight' = historyInFlight - 1
    /\ \E resp \in HistoryResponses :
         messages' = IF resp.ok THEN MapHistory(resp.messages) ELSE messages
    /\ UNCHANGED <<open, input, streaming, isThinking, wsStatus, wsRef, reconnectTimer,
                   token, nSockets, readyState, capturedOpen, timers, sent, turnFinals,
                   decVars, streamVars>>

\* The transport finishes the handshake; ws.onopen does nothing
SocketOpened(s) ==
    /\ readyState[s] = "CONNECTING"
    /\ readyState' = [readyState EXCEPT ![s] = "OPEN"]
    /\ UNCHANGED <<chatState, token, nSockets, capturedOpen, timers, historyInFlight, sent,
                   turnFinals, decVars, streamVars>>

\* ws.onmessage
SocketMessage(s, data) ==
    /\ readyState[s] = "OPEN"
    /\ LET parsed == ChatParse(data)
           d == parsed.value
       IN  IF ~parsed.ok
           THEN UNCHANGED <<messages, streaming, isThinking, wsStatus, turnFinals>>
           ELSE CASE d.type = "connected" ->
                       /\ wsStatus' = "connected"
                       /\ UNCHANGED <<messages, streaming, isThinking, turnFinals>>
                  [] d.type = "delta" ->
                       /\ Len(streaming) + Len(d.content) <= MaxStreamLen
                       /\ isThinking' = FALSE
                       /\ streaming' = streaming \o d.content
                       /\ UNCHANGED <<messages, wsStatus, turnFinals>>
                  [] d.type = "final" ->
                       /\ Len(messages) < MaxMsgs
                       /\ isThinking' = FALSE
                       /\ messages' = Append(messages,
                                             [role |-> "assistant",
                                              content |-> FinalContent(d.content, streaming)])
                       /\ streaming' = <<>>
                       /\ turnFinals' = IF sent # <<>> THEN turnFinals + 1 ELSE turnFinals
                       /\ UNCHANGED wsStatus
                  [] d.type = "status" ->
                       /\ isThinking' = IF d.status = "thinking" THEN TRUE
                                        ELSE IF d.status = "idle" THEN FALSE
                                        ELSE isThinking
                       /\ UNCHANGED <<messages, streaming, wsStatus, turnFinals>>
                  [] d.type = "error" ->
                       /\ Len(messages) < MaxMsgs
                       /\ isThinking' = FALSE
                       /\ streaming' = <<>>
                       /\ messages' = Append(messages,
                                             [role |-> "assistant", content |-> ErrorContent(d)])
                       /\ UNCHANGED <<wsStatus, turnFinals>>
    /\ UNCHANGED <<open, input, wsRef, reconnectTimer, chatEnvRest, decVars, streamVars>>

\* ws.onerror; the transport then closes the socket (SocketClosed)
SocketError(s) ==
    /\ readyState[s] \in {"CONNECTING", "OPEN"}
    /\ readyState' = [readyState EXCEPT ![s] = "CLOSING"]
    /\ wsStatus' = "error"
    /\ UNCHANGED <<open, messages, input, streaming, isThinking, wsRef, reconnectTimer,
                   token, nSockets, capturedOpen, timers, historyInFlight, sent, turnFinals,
                   decVars, streamVars>>

\* ws.onclose: after close(), or when the server or the network ends the connection
SocketClosed(s) ==
    /\ readyState[s] \in {"CONNECTING", "OPEN", "CLOSING"}
    /\ readyState' = [readyState EXCEPT ![s] = "CLOSED"]
    /\ wsStatus' = "disconnected"
    /\ wsRef' = 0
    /\ timers' = timers \cup {s}
    /\ reconnectTimer' = s
    /\ UNCHANGED <<open, messages, input, streaming, isThinking, token, nSockets,
                   capturedOpen, historyInFlight, sent, turnFinals, decVars, streamVars>>

\* A timer callback that never reconnects.
ReconnectNever(capOpen) == FALSE

\* if (open) connect();  in the timer callback, open being the closure's value
ReconnectDue(capOpen) == capOpen

\* The timer set by the onclose of socket t fires: if (open) connect(), both from the
\* closure of the connect() that created t
ReconnectTimerFires(t) ==
    /\ t \in timers
    /\ (capturedOpen[t] /\ token) => nSockets < MaxSockets
    /\ timers' = timers \ {t}
    /\ SetConn(IF ReconnectDue(capturedOpen[t]) THEN Connect(ConnState, capturedOpen[t], token)
               ELSE ConnState)
    /\ UNCHANGED <<open, messages, input, streaming, isThinking, reconnectTimer, token,
                   historyInFlight, sent, turnFinals, decVars, streamVars>>

\* onChange of the textarea (rendered only while the panel is open)
SetInput(v) ==
    /\ open
    /\ input' = v
    /\ UNCHANGED <<open, messages, streaming, isThinking, wsStatus, wsRef, reconnectTimer,
                   chatEnv, decVars, streamVars>>

\* sendMessage(), from the Enter key (handleKeyDown): returns early unless the text
\* is non-empty and the current socket is OPEN
SendMessage ==
    /\ open
    /\ LET content == Trim(input)
       IN  IF content = <<>> \/ wsRef = 0 \/ readyState[wsRef] # "OPEN"
           THEN UNCHANGED <<messages, input, streaming, isThinking, sent, turnFinals>>
           ELSE /\ Len(messages) < MaxMsgs
                /\ messages' = Append(messages, [role |-> "user", content |-> content])
                /\ input' = <<>>
                /\ streaming' = <<>>
                /\ isThinking' = TRUE
                /\ sent' = Append(sent, [type |-> "send", content |-> content, socket |-> wsRef])
                /\ turnFinals' = 0
    /\ UNCHANGED <<open, wsStatus, wsRef, reconnectTimer, token, nSockets, readyState,
                   capturedOpen, timers, historyInFlight, decVars, streamVars>>

\* The credential appears or disappears (sign-in, sign-out)
SetToken ==
    /\ token' = ~token
    /\ UNCHANGED <<chatState, nSockets, readyState, capturedOpen, timers, historyInFlight,
                   sent, turnFinals, decVars, streamVars>>

----------------------------------------------------------------------------
(* Specifications *)

StreamIdle ==
    /\ board = FALSE
    /\ tasks = <<>>
    /\ comments = <<>>
    /\ selectedTask = 0
    /\ creating = "idle"
    /\ commentLoads = {}
    /\ saving = 0
    /\ nEffects = 0
    /\ cur = 0
    /\ isCancelled = [e \in Effects |-> FALSE]
    /\ pc = [e \in Effects |-> "unborn"]
    /\ conn = [e \in Effects |-> "none"]
    /\ buffer = [e \in Effects |-> <<>>]
    /\ retried = [e \in Effects |-> FALSE]
    /\ reads = 0
    /\ effSelected = [e \in Effects |-> 0]
    /\ since = "null"
    /\ authorization = "none"

ChatIdle ==
    /\ open = FALSE
    /\ messages = <<>>
    /\ input = <<>>
    /\ streaming = <<>>
    /\ isThinking = FALSE
    /\ wsStatus = "disconnected"
    /\ wsRef = 0
    /\ reconnectTimer = 0
    /\ token = FALSE
    /\ nSockets = 0
    /\ readyState = [s \in Sockets |-> "NONE"]
    /\ capturedOpen = [s \in Sockets |-> FALSE]
    /\ timers = {}
    /\ historyInFlight = 0
    /\ sent = <<>>
    /\ turnFinals = 0

\* The frame decoder over every valid text and every chunking
InitDecoder == DecoderStart /\ StreamIdle /\ ChatIdle
NextDecoder == DecoderRead
SpecDecoder == InitDecoder /\ [][NextDecoder]_vars

\* The frame decoder over one frame of any lines and every chunking
InitFields == FieldsStart /\ StreamIdle /\ ChatIdle
NextFields == DecoderRead
SpecFields == InitFields /\ [][NextFields]_vars

\* The task stream of the board page
InitStream == DecoderIdle /\ StreamStart /\ ChatIdle
NextStream ==
    \/ LoadBoard
    \/ RestartEffect
    \/ StopEffect
    \/ \E e \in Effects :
         \/ TokenResolved(e)
         \/ TokenRejected(e)
         \/ FetchResolved(e)
         \/ FetchRejected(e)
         \/ StreamRead(e)
         \/ StreamDone(e)
         \/ StreamReadRejected(e)
         \/ TimerFires(e)
SpecStream == InitStream /\ [][NextStream]_vars

\* The cursor tracker: the board loads any task list with timestamps and the
\* connection manager computes the since parameter of each attempt
InitCursor == DecoderIdle /\ StreamStart /\ ChatIdle
NextCursor ==
    \/ LoadBoardStamped
    \/ \E e \in Effects :
         \/ TokenResolved(e)
         \/ FetchRejected(e)
         \/ TimerFires(e)
SpecCursor == InitCursor /\ [][NextCursor]_vars

\* The task stream across disconnects, against a server that replays its log of
\* updates from the since parameter of each attempt
InitReplay == DecoderIdle /\ StreamStart /\ ChatIdle
NextReplay ==
    \/ LoadBoardReplay
    \/ RestartEffect
    \/ \E e \in Effects :
         \/ TokenResolved(e)
         \/ TokenRejected(e)
         \/ ReplayAccepted(e)
         \/ FetchRejected(e)
         \/ ReplayRead(e)
         \/ StreamReadRejected(e)
         \/ TimerFires(e)
SpecReplay == InitReplay /\ [][NextReplay]_vars

\* The read loop: connections that end, fail and are retried or cancelled, chunks
\* that end anywhere
InitReadLoop == DecoderIdle /\ StreamStart /\ ChatIdle
NextReadLoop ==
    \/ LoadBoard
    \/ StopEffect
    \/ \E e \in Effects :
         \/ TokenResolved(e)
         \/ LoopAccepted(e)
         \/ LoopRead(e)
         \/ StreamDone(e)
         \/ StreamReadRejected(e)
         \/ TimerFires(e)
SpecReadLoop == InitReadLoop /\ [][NextReadLoop]_vars

\* The order of the frames of a connection, with a task open or none
InitFrames == DecoderIdle /\ StreamStart /\ ChatIdle
NextFrames ==
    \/ LoadBoard
    \/ OpenComments(1)
    \/ \E e \in Effects :
         \/ TokenResolved(e)
         \/ FramesAccepted(e)
         \/ FramesRead(e)
SpecFrames == InitFrames /\ [][NextFrames]_vars

\* The board page with its task detail panel: the task stream together with the
\* handlers that select a task and load its comments
InitBoard == DecoderIdle /\ StreamStart /\ ChatIdle
NextBoard ==
    \/ LoadBoard
    \/ CloseComments
    \/ \E id \in TaskIds :
         \/ OpenComments(id)
         \/ CommentsLoaded(id)
    \/ \E e \in Effects :
         \/ TokenResolved(e)
         \/ FetchResolved(e)
         \/ BoardRead(e)
         \/ StreamReadRejected(e)
SpecBoard == InitBoard /\ [][NextBoard]_vars

\* The writers of the task list: the task stream, the create request and the save
\* request of the selected task
InitTasks == DecoderIdle /\ StreamStart /\ ChatIdle
NextTasks ==
    \/ LoadBoard
    \/ HandleCreateTask
    \/ CreateTaskResolved
    \/ HandleTaskSave
    \/ TaskSaveResolved
    \/ \E id \in TaskIds : OpenComments(id)
    \/ \E e \in Effects :
         \/ TokenResolved(e)
         \/ FetchResolved(e)
         \/ BoardRead(e)
SpecTasks == InitTasks /\ [][NextTasks]_vars

\* Payloads that do not parse: the task stream of one run of the effect with a
\* task open, and the chat socket
MalformedWire == {<<"{">>, <<"{", "c", "}">>}

InitMalformed == DecoderIdle /\ StreamStart /\ ChatStart /\ token
NextMalformed ==
    \/ LoadBoard
    \/ OpenPanel
    \/ \E id \in TaskIds : OpenComments(id)
    \/ \E e \in Effects :
         \/ TokenResolved(e)
         \/ FetchResolved(e)
         \/ MalformedRead(e)
    \/ \E s \in Sockets :
         \/ SocketOpened(s)
         \/ \E data \in MalformedWire : SocketMessage(s, data)
SpecMalformed == InitMalformed /\ [][NextMalformed]_vars

\* The chat panel as a session manager: every lifecycle event, with the inbound
\* frames of SessionWire (no handler of an inbound frame reads or writes the
\* sockets, the timers, wsRef or open)
InitChat == DecoderIdle /\ StreamIdle /\ ChatStart
NextChat ==
    \/ OpenPanel
    \/ ClosePanel
    \/ HistoryResolved
    \/ SetToken
    \/ \E s \in Sockets :
         \/ SocketOpened(s)
         \/ SocketError(s)
         \/ SocketClosed(s)
         \/ ReconnectTimerFires(s)
         \/ \E data \in SessionWire : SocketMessage(s, data)
SpecChat == InitChat /\ [][NextChat]_vars

\* The chat panel as a conversation: one opening of the panel with a credential,
\* the frames of TurnWire and the user's typing and sending
InitChatTurn == DecoderIdle /\ StreamIdle /\ ChatStart /\ token
NextChatTurn ==
    \/ OpenPanel
    \/ HistoryResolved
    \/ SendMessage
    \/ \E v \in InputTexts : SetInput(v)
    \/ \E s \in Sockets :
         \/ SocketOpened(s)
         \/ \E data \in TurnWire : SocketMessage(s, data)
SpecChatTurn == InitChatTurn /\ [][NextChatTurn]_vars

\* The token accumulator: deltas and finals in every order on one open socket
InitAccumulator == DecoderIdle /\ StreamIdle /\ ChatStart /\ token
NextAccumulator ==
    \/ OpenPanel
    \/ \E s \in Sockets :
         \/ SocketOpened(s)
         \/ \E data \in AccumulatorWire : SocketMessage(s, data)
SpecAccumulator == InitAccumulator /\ [][NextAccumulator]_vars

\* The reconnect loop of the chat with a credential: the panel opens and closes, the
\* sockets open, fail and close, and every pending reconnect timer eventually fires
InitChatLive == DecoderIdle /\ StreamIdle /\ ChatStart /\ token
NextChatLive ==
    \/ OpenPanel
    \/ ClosePanel
    \/ \E s \in Sockets :
         \/ SocketOpened(s)
         \/ SocketError(s)
         \/ SocketClosed(s)
         \/ ReconnectTimerFires(s)
         \/ SocketMessage(s, <<"{", "c", "}">>)
SpecChatLive ==
    InitChatLive /\ [][NextChatLive]_vars /\ \A s \in Sockets : WF_vars(ReconnectTimerFires(s))

\* Error frames in the middle of a conversation: the user sends, the service
\* answers with status, deltas and error frames, the socket may close
InitChatError == DecoderIdle /\ StreamIdle /\ ChatStart /\ token
NextChatError ==
    \/ OpenPanel
    \/ SendMessage
    \/ \E v \in InputTexts : SetInput(v)
    \/ \E s \in Sockets :
         \/ SocketOpened(s)
         \/ SocketClosed(s)
         \/ \E data \in ErrorWire : SocketMessage(s, data)
SpecChatError == InitChatError /\ [][NextChatError]_vars

----------------------------------------------------------------------------
(* Properties *)

\* C1: for every valid multi-frame text and every split of it into chunks, the
\* read loop emits the same ordered (eventType, data) frames, and dispatches the
\* same ones, as a single-chunk delivery of the whole text.
C1_SplitIndependent ==
    pos = Len(text) =>
        /\ emitted = DecodeChunk(<<>>, text).frames
        /\ Dispatched(emitted) = Dispatched(DecodeChunk(<<>>, text).frames)
        /\ decBuffer = DecodeChunk(<<>>, text).buffer

\* A chunk boundary fell between the CR and the LF of the last blank line, after a
\* frame had already been emitted.
C1_Witness ==
    /\ pos = Len(text) - 1
    /\ decBuffer # <<>>
    /\ decBuffer[Len(decBuffer)] = CR
    /\ emitted # <<>>

\* C2: applying a task frame to the Working Set: an unseen id inserts exactly one
\* entity at the front; a seen id keeps length and order, changes only that entity,
\* gives every field of the payload the payload's value and keeps every other field.
C2_UpsertFrame ==
    \A p \in TaskPayloads :
        LET r == ApplyTask(tasks, p)
            seen == {i \in 1..Len(tasks) : tasks[i].id = p.id}
        IN  IF seen = {}
            THEN /\ Len(r) = Len(tasks) + 1
                 /\ r[1] = p
                 /\ \A i \in 1..Len(tasks) : r[i + 1] = tasks[i]
            ELSE /\ Len(r) = Len(tasks)
                 /\ \E k \in seen :
                      /\ \A i \in 1..Len(tasks) : i # k => r[i] = tasks[i]
                      /\ DOMAIN r[k] = (DOMAIN tasks[k]) \cup (DOMAIN p)
                      /\ \A f \in DOMAIN p : r[k][f] = p[f]
                      /\ \A f \in (DOMAIN tasks[k]) \ (DOMAIN p) : r[k][f] = tasks[k][f]

\* Task 1 was inserted, task 2 was inserted in front of it, and a later frame without
\* a title updated task 1 in place: it kept its position and its title.
C2_Witness ==
    /\ Len(tasks) = 2
    /\ tasks[1].id = 2
    /\ tasks[2] = [id |-> 1, title |-> "a", status |-> "in_progress"]

\* C3: once a run of the task stream effect is cancelled it makes no further
\* connection attempt (fetch), whatever timer or token request was pending.
C3_NoAttemptAfterCancel ==
    [][\A e \in Effects : isCancelled[e] => (pc'[e] = "fetch" => pc[e] = "fetch")]_vars

\* A cancelled run whose retry (a connect() started by the reconnect timer) ended
\* at the guard that follows getToken().
C3_Witness ==
    \E e \in Effects : isCancelled[e] /\ pc[e] = "exit_guard" /\ retried[e]

\* C4: a run whose connection attempt or read loop has ended rests with no open
\* connection and no retry pending only if it was cancelled.
C4_RetryUnlessCancelled ==
    \A e \in Effects : pc[e] \in {"exit_done", "exit_catch"} => isCancelled[e]

\* C5: at most one task-stream connection is open or being opened at any moment.
C5_OneConnection ==
    Cardinality({e \in Effects : conn[e] # "none"}) <= 1

\* A run was cancelled in the middle of a read (the rejection is still to be
\* delivered) and the run that replaced it already holds an open connection.
C5_Witness ==
    \E e1, e2 \in Effects :
        /\ e1 # e2
        /\ isCancelled[e1]
        /\ pc[e1] = "read"
        /\ conn[e2] = "open"

LiveSockets == {s \in Sockets : readyState[s] \in {"CONNECTING", "OPEN"}}

\* C6: a chat session never has two live (not yet closed) sockets at the same time.
C6_AtMostOneLiveSocket == Cardinality(LiveSockets) <= 1

\* C7: a chat socket is created only while the panel is open and a credential is
\* available.
C7_SocketOnlyWhileOpen ==
    [][nSockets' > nSockets => (open' /\ token)]_vars

\* C8: no socket is live while the session is closed, and every live socket is the
\* one wsRef refers to.
C8_LiveSocketIsHeld ==
    \A s \in LiveSockets : open /\ wsRef = s

\* C9: a final frame appends one assistant message whose content is the frame's
\* text when non-empty, else the running buffer when non-empty, else "...", and
\* every delta appends its text to the end of the running buffer.
C9_FinalContent ==
    [][\A s \in Sockets :
          /\ \A p \in {"f0", "f1"} :
               SocketMessage(s, <<"{", p, "}">>) =>
                   /\ Len(messages') = Len(messages) + 1
                   /\ SubSeq(messages', 1, Len(messages)) = messages
                   /\ messages'[Len(messages')].role = "assistant"
                   /\ messages'[Len(messages')].content =
                          (IF ChatDocOf(p).content # <<>> THEN ChatDocOf(p).content
                           ELSE IF streaming # <<>> THEN streaming
                           ELSE S_Dots)
          /\ \A p \in {"d1", "d2"} :
               SocketMessage(s, <<"{", p, "}">>) =>
                   streaming' = streaming \o ChatDocOf(p).content]_vars

\* The deltas "Hel" and "lo" were followed by a final frame with empty text: the
\* history holds "Hello" and the running buffer is empty again.
C9_Witness ==
    /\ streaming = <<>>
    /\ \E i \in 1..Len(messages) :
         messages[i] = [role |-> "assistant", content |-> S_Hel \o S_lo]

\* C10: between one user message and the next at most one finalization appends an
\* assistant message.
C10_OneFinalizationPerTurn == turnFinals <= 1

CommentPayloads ==
    {PayloadOf(p).comment : p \in {q \in StreamSyms : "comment" \in DOMAIN PayloadOf(q)}}

CountId(list, id) == Cardinality({i \in 1..Len(list) : list[i].id = id})

\* C11: the same comment frame for the open task delivered twice leaves exactly one
\* comment with that id: the first delivery appends it (unless it is already
\* stored), the second changes nothing; no state holds an id twice.
C11_CommentOnce ==
    /\ \A i, j \in 1..Len(comments) : comments[i].id = comments[j].id => i = j
    /\ \A c \in CommentPayloads :
         (cur # 0 /\ selectedTask = c.task_id) =>
             LET once == ApplyComment(comments, c, effSelected[cur])
                 twice == ApplyComment(once, c, effSelected[cur])
             IN  /\ CountId(once, c.id) = 1
                 /\ twice = once
                 /\ CountId(comments, c.id) = 0 => once = Append(comments, c)

\* The comment of task 1 is stored once, with task 1 open and the stream of a later
\* run of the effect connected.
C11_Witness ==
    /\ cur > 1
    /\ selectedTask = 1
    /\ pc[cur] = "read"
    /\ comments = <<PayloadOf("K").comment>>

\* C12: a read of the task stream changes the comment collection only by appending
\* a comment whose task_id is the id of the task open in the UI; with another task
\* open, or none, it leaves the collection unchanged.
C12_GatedByOpenTask ==
    [][((\E e \in Effects : BoardRead(e)) /\ comments' # comments) =>
          \E c \in CommentPayloads :
              /\ selectedTask # 0
              /\ c.task_id = selectedTask
              /\ comments' = Append(comments, c)]_vars

\* Task 2 is open and the stream connected while the comments loaded for it are
\* all the collection holds; task 1, whose comment the stream carries, is on the board.
C12_Witness ==
    /\ selectedTask = 2
    /\ cur # 0
    /\ pc[cur] = "read"
    /\ comments = <<>>
    /\ FindIndex(tasks, 1) # 0

\* C13: no two entries of the task list have the same id.
C13_UniqueTaskIds ==
    \A i, j \in 1..Len(tasks) : tasks[i].id = tasks[j].id => i = j

\* C14: a change of the selected task while the stream is connected leaves the run
\* of the effect and its connection as they are, and the gate follows the selection.
C14_SwitchKeepsConnection ==
    [][(selectedTask' # selectedTask /\ cur # 0 /\ conn[cur] = "open") =>
          /\ cur' = cur
          /\ conn'[cur] = "open"
          /\ effSelected'[cur'] = selectedTask']_vars

\* C15: a frame whose payload does not parse is dropped. In the task stream the
\* task list and the comments are what the rest of the chunk alone makes them, the
\* run stays in its read loop on the same connection and no retry is scheduled; in
\* the chat a message that is not JSON changes nothing and closes no socket.
C15_MalformedDropped ==
    [][/\ \A e \in Effects : \A chunk \in MalformedChunks :
            ReadChunk(e, chunk) =>
                LET rest == SubSeq(chunk, Len(Wire("X")) + 1, Len(chunk))
                    st == HandleFrames([tasks |-> tasks, comments |-> comments],
                                       DecodeChunk(buffer[e], rest).frames, selectedTask)
                IN  /\ tasks' = st.tasks
                    /\ comments' = st.comments
                    /\ pc' = pc
                    /\ conn' = conn
                    /\ buffer' = buffer
       /\ \A s \in Sockets :
            SocketMessage(s, <<"{">>) => UNCHANGED <<chatState, chatEnv>>]_vars

\* A chunk that began with a malformed frame has delivered the comment of the open
\* task, and the chat socket that received a malformed message is still open.
C15_Witness ==
    /\ comments = <<PayloadOf("K").comment>>
    /\ cur # 0
    /\ pc[cur] = "read"
    /\ \E s \in Sockets : readyState[s] = "OPEN"

\* C16: a submit made while the connection state is not connected sends no frame
\* and leaves history, running buffer, thinking flag and input text unchanged.
C16_SubmitOnlyWhenConnected ==
    [][(SendMessage /\ wsStatus # "connected") =>
          UNCHANGED <<sent, messages, streaming, isThinking, input>>]_vars

\* C17: an accepted submit appends exactly one user message with the trimmed text
\* to the end of history and emits exactly one send frame with the same text on the
\* current socket; a submit that sends nothing appends nothing.
C17_AppendThenSend ==
    [][SendMessage =>
          IF sent' = sent THEN messages' = messages
          ELSE \E i, j \in 1..Len(input) :
                  LET content == SubSeq(input, i, j)
                  IN  /\ i <= j
                      /\ \A k \in 1..Len(input) : (k < i \/ k > j) => input[k] \in Whitespace
                      /\ input[i] \notin Whitespace
                      /\ input[j] \notin Whitespace
                      /\ messages' = Append(messages, [role |-> "user", content |-> content])
                      /\ sent' = Append(sent, [type |-> "send", content |-> content,
                                                socket |-> wsRef])]_vars

\* The text " hi " was submitted: history holds the user message "hi" and the send
\* frame carries "hi".
C17_Witness ==
    /\ sent # <<>>
    /\ sent[1].content = <<"h", "i">>
    /\ \E i \in 1..Len(messages) : messages[i] = [role |-> "user", content |-> <<"h", "i">>]

\* C18: whenever a socket has closed while the panel is open (with a credential), a
\* newer socket is eventually created, unless the panel is closed first; this holds
\* for every socket in turn (the last one the bound allows is left out).
C18_ReconnectsWhileOpen ==
    \A s \in Sockets :
        s < MaxSockets =>
            ((readyState[s] = "CLOSED" /\ open) ~> (nSockets > s \/ ~open))

\* Socket 1 has closed, its timer has fired and socket 2 is connecting, and so has
\* socket 2 closed and its timer is pending, with the panel open.
C18_Witness ==
    /\ open
    /\ readyState[1] = "CLOSED"
    /\ 1 \notin timers
    /\ readyState[2] = "CLOSED"
    /\ 2 \in timers
    /\ nSockets = 2

\* C19: an error frame clears the running buffer and the thinking flag, appends one
\* assistant message with the error text and leaves the connection alone: no socket
\* closed or created, connection state unchanged, no timer, nothing sent.
C19_ErrorFrame ==
    [][\A s \in Sockets :
          /\ SocketMessage(s, <<"{", "e1", "}">>) =>
                messages' = Append(messages, [role |-> "assistant",
                                              content |-> S_ErrorPrefix \o S_boom])
          /\ SocketMessage(s, <<"{", "e0", "}">>) =>
                messages' = Append(messages, [role |-> "assistant",
                                              content |-> S_ErrorPrefix \o S_UnknownError])
          /\ (\E p \in {"e0", "e1"} : SocketMessage(s, <<"{", p, "}">>)) =>
                /\ streaming' = <<>>
                /\ isThinking' = FALSE
                /\ UNCHANGED <<wsStatus, wsRef, reconnectTimer, open, input, chatEnv>>]_vars

\* An error frame arrived in the middle of a reply: history ends with "Error: boom"
\* after the user's message, the buffer is empty and the socket still open.
C19_Witness ==
    /\ Len(messages) >= 2
    /\ messages[Len(messages) - 1].role = "user"
    /\ messages[Len(messages)] = [role |-> "assistant", content |-> S_ErrorPrefix \o S_boom]
    /\ streaming = <<>>
    /\ wsRef # 0
    /\ readyState[wsRef] = "OPEN"
    /\ wsStatus = "connected"

\* The instant of the timestamp a task counts with: updated_at when it has one,
\* else created_at; none when that is missing or not a date
UsableTimes(items) ==
    {DateParse(v).time :
        v \in {w \in {IF "updated_at" \in DOMAIN items[i] /\ items[i].updated_at # "null"
                      THEN items[i].updated_at
                      ELSE IF "created_at" \in DOMAIN items[i] THEN items[i].created_at
                      ELSE "null" : i \in 1..Len(items)} : ~DateParse(w).nan}}

C21_AttemptCarriesCursor ==
    [][\A e \in Effects :
         (pc[e] = "token" /\ pc'[e] = "fetch") =>
            /\ authorization' = "Bearer token"
            /\ IF UsableTimes(tasks) = {} THEN since' = "null"
               ELSE /\ since' # "null"
                    /\ DateParse(since').time \in UsableTimes(tasks)
                    /\ \A n \in UsableTimes(tasks) : n <= DateParse(since').time]_vars

\* A retry is in flight after the frame of the second update was applied: it
\* carries the credential and the instant of that update as since.
C21_Witness ==
    /\ cur # 0
    /\ pc[cur] = "fetch"
    /\ retried[cur]
    /\ Len(tasks) = 1
    /\ tasks[1].status = "in_progress"
    /\ tasks[1].updated_at = "T2+"
    /\ since = "T2"
    /\ authorization = "Bearer token"

HasBlankLine(s) == \E i \in 1..(Len(s) - 1) : s[i] = LF /\ s[i + 1] = LF

\* rest is what follows the last blank line of whole (all of whole when it has none)
IsRest(whole, rest) ==
    \E k \in 0..Len(whole) :
        /\ rest = SubSeq(whole, k + 1, Len(whole))
        /\ ~HasBlankLine(rest)
        /\ k = 0 \/ (k >= 2 /\ whole[k] = LF /\ whole[k - 1] = LF)

\* C22: a read dispatches nothing unless the buffered text with the chunk holds a
\* blank line, and leaves in the buffer the text after the last blank line, which
\* the next chunk of the connection is appended to; that text is never dispatched
\* when the loop ends (done, error, cancellation); every connection starts its read
\* loop on an empty buffer.
C22_FrameNeedsBlankLine ==
    [][\A e \in Effects :
         /\ (pc[e] = "read" /\ ~isCancelled[e] /\ pc'[e] = "read" /\ reads' # reads) =>
               LET chunk == SubSeq(text', Len(text) + 1, Len(text'))
                   whole == ReplaceCRLF(buffer[e] \o chunk)
               IN  /\ IsRest(whole, buffer'[e])
                   /\ ~HasBlankLine(whole) => (tasks' = tasks /\ comments' = comments)
         /\ (pc[e] # "read" /\ pc'[e] = "read") => buffer'[e] = <<>>
         /\ (pc[e] = "read" /\ (pc'[e] # "read" \/ (isCancelled'[e] /\ ~isCancelled[e]))) =>
               (tasks' = tasks /\ comments' = comments)]_vars

\* A connection that had received the frame of task 2 short of its last line feed
\* failed; the retry is reading, on an empty buffer, and task 2 was never stored.
C22_Witness ==
    /\ cur # 0
    /\ pc[cur] = "read"
    /\ retried[cur]
    /\ reads = 1
    /\ buffer[cur] = <<>>
    /\ text = <<>>
    /\ FindIndex(tasks, 2) = 0

\* The value of a field line: what follows the colon, without the white space
\* around it
FieldValue(line, n) ==
    LET v == SubSeq(line, n + 1, Len(line))
        inked == {i \in 1..Len(v) : v[i] \notin Whitespace}
    IN  IF inked = {} THEN <<>>
        ELSE SubSeq(v, CHOOSE i \in inked : \A j \in inked : i <= j,
                       CHOOSE i \in inked : \A j \in inked : j <= i)

RECURSIVE Concat(_)
Concat(ss) == IF ss = <<>> THEN <<>> ELSE Head(ss) \o Concat(Tail(ss))

ExpectedEventType(body) ==
    LET evs == SelectSeq(body, LAMBDA l : StartsWith(l, S_event))
    IN  IF evs = <<>> THEN S_message ELSE FieldValue(evs[Len(evs)], Len(S_event))

ExpectedData(body) ==
    LET ds == SelectSeq(body, LAMBDA l : StartsWith(l, S_data))
    IN  Concat([i \in 1..Len(ds) |-> FieldValue(ds[i], Len(S_data))])

\* C23: the frame decoded from the lines of a body has as event_type the value of
\* its event: line (the last one, if several), "message" when it has none, and as
\* data the values of its data: lines one after the other in order, nothing put
\* between them.
C23_FrameFields ==
    emitted # <<>> =>
        \A body \in FieldBodies :
            text = FrameText(body, "lf") =>
                /\ Len(emitted) = 1
                /\ emitted[1].eventType = ExpectedEventType(body)
                /\ emitted[1].data = ExpectedData(body)

\* A frame of a comment line and two data lines was decoded: the event type is
\* "message" and the data is the two values joined.
C23_Witness ==
    /\ text = FrameText(<<L_comment, S_data \o <<" ", "{", "A">>, S_data \o <<"}", " ">>>>, "lf")
    /\ emitted = <<[eventType |-> S_message, data |-> <<"{", "A", "}">>]>>

\* The decoded frame that carries document p
FrameOf(p) == [eventType |-> S_task, data |-> <<"{", p, "}">>]

\* C24: the task frames of a connection are applied in the order received: when
\* the connection received for task 1 a frame with status inbox and after it, as
\* the last frame of that task, one with status in_progress, the task is stored
\* once, with status in_progress and the title it had.
C24_ReceiveOrder ==
    LET as == {i \in 1..Len(emitted) : emitted[i] = FrameOf("A")}
        bs == {i \in 1..Len(emitted) : emitted[i] = FrameOf("B")}
    IN  (\E j \in bs : (\E i \in as : i < j) /\ (\A k \in as \cup bs : k <= j)) =>
            /\ CountId(tasks, 1) = 1
            /\ tasks[FindIndex(tasks, 1)].status = "in_progress"
            /\ tasks[FindIndex(tasks, 1)].title = PayloadOf("A").task.title

\* Two reads of one connection returned the two frames, on a board without tasks.
C24_Witness ==
    /\ reads = 2
    /\ emitted = <<FrameOf("A"), FrameOf("B")>>
    /\ tasks = <<[id |-> 1, title |-> "a", status |-> "in_progress"]>>

\* C30: a read whose frames all carry a payload of type "task.comment" with a
\* comment that has a task_id leaves the task list as it was, though the payload
\* also carries a task, and whether the comment is taken (its task is open) or not.
C30_CommentFrameKeepsTasks ==
    [][(reads' # reads) =>
          LET new == SubSeq(emitted', Len(emitted) + 1, Len(emitted'))
          IN  (\A i \in 1..Len(new) : new[i] = FrameOf("M")) => tasks' = tasks]_vars

\* With task 1 open the comment of such a frame was taken, and the task kept the
\* title and the status it had, not those of the frame.
C30_Witness ==
    /\ selectedTask = 1
    /\ emitted = <<FrameOf("M")>>
    /\ comments = <<PayloadOf("M").comment>>
    /\ tasks = <<[id |-> 1, title |-> "a", status |-> "inbox"]>>

\* C25: while the history request of a session open is unanswered no socket is
\* created and the history holds no message yet: the response is applied before
\* the socket exists and before any user message or reply is appended.
C25_HistoryBeforeSocket ==
    [][(historyInFlight' > 0 /\ historyInFlight' >= historyInFlight) =>
          (nSockets' = nSockets /\ messages' = messages)]_vars

\* C27: while the panel stays open the history only grows at its end: what it
\* held before a step it still holds, in the same places, after it.
C27_HistoryAppendOnly ==
    [][(open /\ open') =>
          /\ Len(messages) <= Len(messages')
          /\ SubSeq(messages', 1, Len(messages)) = messages]_vars

\* C28: a frame or a close event of a socket other than the one wsRef refers to
\* leaves the history, the running buffer, the thinking flag, the connection state,
\* wsRef and the reconnect timer as they were.
C28_OnlyCurrentSocketActs ==
    [][\A s \in Sockets :
         (s # wsRef /\ (SocketClosed(s) \/ \E data \in SessionWire : SocketMessage(s, data))) =>
            UNCHANGED <<messages, streaming, isThinking, wsStatus, wsRef, reconnectTimer>>]_vars

\* C29: every comment held belongs to the open task, and none is held while no
\* task is open.
C29_CommentsOfOpenTask ==
    \A i \in 1..Len(comments) : selectedTask # 0 /\ comments[i].task_id = selectedTask

\* The update of the log that gave field f the value v
UpdateOf(f, v) ==
    CHOOSE k \in 1..Len(ServerLog) :
        f \in DOMAIN PayloadOf(ServerLog[k]).task /\ PayloadOf(ServerLog[k]).task[f] = v

====
